---- MODULE Spec2Model ----
(***************************************************************************)
(* A model of the paddle-ocr repository: the match resolver of ocr.py      *)
(* (find_text_item, local mode) and of ocr_server.py (the /find handler),  *)
(* the backend selection of ocr.py and the browser workflows of main.py.   *)
(*                                                                         *)
(* Conventions.                                                            *)
(*   - A Python str is a sequence of one-character strings.                *)
(*   - A Python Optional is a sequence of length 0 (None) or 1 (a value).  *)
(*   - A recognized item is a record [text, center]; center is <<cx, cy>>. *)
(*     The resolver reads no other field of an item.                       *)
(***************************************************************************)
EXTENDS Integers, Sequences, FiniteSets, TLC

\* ------------------------------------------------------------------------
\* Bounds of the model
\* ------------------------------------------------------------------------

\* longest text and target of the text-filter inputs
MaxTextLen == 3

\* largest coordinate, and the larger image dimension, of the region inputs
MaxCoord == 10

\* longest recognition output of the ranking inputs
MaxItems == 3

\* ------------------------------------------------------------------------
\* Python values
\* ------------------------------------------------------------------------

None == <<>>

Some(x) == <<x>>

\* truthiness of an Optional[str] whose value is a character sequence
truthy(opt) == opt # None /\ opt[1] # <<>>

\* truthiness of an Optional[str] whose value is a TLA+ string (region names)
truthy_name(opt) == opt # None /\ opt[1] # ""

UpperCase ==
  << "A", "B", "C", "D", "E", "F", "G", "H", "I", "J", "K", "L", "M",
     "N", "O", "P", "Q", "R", "S", "T", "U", "V", "W", "X", "Y", "Z" >>

LowerCase ==
  << "a", "b", "c", "d", "e", "f", "g", "h", "i", "j", "k", "l", "m",
     "n", "o", "p", "q", "r", "s", "t", "u", "v", "w", "x", "y", "z" >>

\* str.lower() of one ASCII character
lower_char(c) ==
  IF \E i \in DOMAIN UpperCase : UpperCase[i] = c
  THEN LowerCase[CHOOSE i \in DOMAIN UpperCase : UpperCase[i] = c]
  ELSE c

\* str.lower()
lower(s) == IF s = <<>> THEN <<>> ELSE [i \in 1..Len(s) |-> lower_char(s[i])]

\* Python's `sub in s` on strings: sub occurs in s as a contiguous run
str_in(sub, s) ==
  \E i \in 0..(Len(s) - Len(sub)) : SubSeq(s, i + 1, i + Len(sub)) = sub

\* Python's `<` on two tuples of integers of one length: lexicographic
key_lt(a, b) ==
  \E k \in 1..Len(a) : a[k] < b[k] /\ \A m \in 1..(k - 1) : a[m] = b[m]

\* list.sort(key=...) / sorted(): a stable sort; keys[i] is the key of s[i],
\* a tuple of integers. The element at index i goes to the place after every
\* element with a smaller key and every earlier element with an equal key.
stable_sort(s, keys) ==
  LET n == Len(s)
      rank(i) == Cardinality({ j \in 1..n :
                     key_lt(keys[j], keys[i])
                     \/ (~key_lt(keys[i], keys[j]) /\ j < i) }) + 1
  IN  [r \in 1..n |-> s[CHOOSE i \in 1..n : rank(i) = r]]

\* `n * 0.t > c`, `n * 0.t < c` for integers n, c and a one-digit decimal 0.t.
\* Python compares the integer c with the double n * 0.t; for every n up to
\* 200000 and t in {3, 4, 6, 7} floor and ceiling of that double are those of
\* the exact product n*t/10, so the comparison is the exact one.
frac_lt(n, t, c) == n * t < 10 * c

frac_gt(n, t, c) == n * t > 10 * c

\* ------------------------------------------------------------------------
\* ocr.py: find_text_item, local mode
\* ------------------------------------------------------------------------

\* lines 186-193: the size used by the region filter
local_img_size(region, img_size, image_size) ==
  IF truthy_name(region) /\ img_size = None
  THEN image_size      \* Image.open(...).size, or still None when it raises
  ELSE img_size

\* lines 195-201: the center of the first item whose text contains near
local_near_center(items, near) ==
  IF truthy(near)
  THEN LET hits == { i \in 1..Len(items) :
                       str_in(lower(near[1]), lower(items[i].text)) }
       IN  IF hits = {} THEN None
           ELSE Some(items[CHOOSE i \in hits : \A j \in hits : i <= j].center)
  ELSE None

\* a faulty text filter: the exact comparison ignores letter case
local_text_skip_caseless(item, target, exact) ==
  IF exact
  THEN lower(item.text) # lower(target)
  ELSE ~str_in(lower(target), lower(item.text))

\* lines 206-211: TRUE when the loop skips the item for its text
local_text_skip(item, target, exact) ==
  IF exact
  THEN item.text # target
  ELSE ~str_in(lower(target), lower(item.text))

\* a faulty region filter: `top` skips at cy >= h * 0.4, the line itself included
local_region_skip_open(item, region, img_size) ==
  IF truthy_name(region) /\ img_size # None
  THEN LET cx == item.center[1]
           cy == item.center[2]
           w  == img_size[1][1]
           h  == img_size[1][2]
           r  == region[1]
       IN  IF r = "top" /\ ~frac_gt(h, 4, cy) THEN TRUE
           ELSE IF r = "bottom" /\ frac_gt(h, 6, cy) THEN TRUE
           ELSE IF r = "left" /\ frac_lt(w, 4, cx) THEN TRUE
           ELSE IF r = "right" /\ frac_gt(w, 6, cx) THEN TRUE
           ELSE IF r = "center"
                THEN ~(frac_lt(w, 3, cx) /\ frac_gt(w, 7, cx)
                       /\ frac_lt(h, 3, cy) /\ frac_gt(h, 7, cy))
                ELSE FALSE
  ELSE FALSE

\* lines 213-227: TRUE when the loop skips the item for its place
local_region_skip(item, region, img_size) ==
  IF truthy_name(region) /\ img_size # None
  THEN LET cx == item.center[1]
           cy == item.center[2]
           w  == img_size[1][1]
           h  == img_size[1][2]
           r  == region[1]
       IN  IF r = "top" /\ frac_lt(h, 4, cy) THEN TRUE             \* cy > h * 0.4
           ELSE IF r = "bottom" /\ frac_gt(h, 6, cy) THEN TRUE     \* cy < h * 0.6
           ELSE IF r = "left" /\ frac_lt(w, 4, cx) THEN TRUE       \* cx > w * 0.4
           ELSE IF r = "right" /\ frac_gt(w, 6, cx) THEN TRUE      \* cx < w * 0.6
           ELSE IF r = "center"
                THEN ~(frac_lt(w, 3, cx) /\ frac_gt(w, 7, cx)
                       /\ frac_lt(h, 3, cy) /\ frac_gt(h, 7, cy))
                ELSE FALSE
  ELSE FALSE

\* a faulty loop: candidates.insert(0, item) for candidates.append(item)
local_candidates_prepend(items, target, exact, region, img_size) ==
  LET kept == SelectSeq(items, LAMBDA item :
                 ~local_text_skip(item, target, exact)
                 /\ ~local_region_skip(item, region, img_size))
  IN  [i \in 1..Len(kept) |-> kept[Len(kept) + 1 - i]]

\* lines 204-229: the items the loop appends, in the order of items
local_candidates(items, target, exact, region, img_size) ==
  SelectSeq(items, LAMBDA item :
     ~local_text_skip(item, target, exact)
     /\ ~local_region_skip(item, region, img_size))

\* lines 235-238: squared distance of an item from the anchor
distance(item, near_center) ==
  (item.center[1] - near_center[1][1]) * (item.center[1] - near_center[1][1])
  + (item.center[2] - near_center[1][2]) * (item.center[2] - near_center[1][2])

\* a faulty ranking: the candidates are never sorted
local_ranked_unsorted(candidates, near_center) == candidates

\* lines 234-239: candidates as they are when candidates[0] is read
local_ranked(candidates, near_center) ==
  IF near_center # None /\ Len(candidates) > 1
  THEN stable_sort(candidates,
         [i \in 1..Len(candidates) |-> << distance(candidates[i], near_center) >>])
  ELSE candidates

\* a faulty return: with no candidate, the first recognized item is returned
local_run_fallback(backend_out, size, exists, tgt, ex, reg, nr, size_arg) ==
  IF ~exists
  THEN [status |-> "raised", items |-> <<>>, img_size |-> None,
        near_center |-> None, candidates |-> <<>>, ret |-> None]
  ELSE LET items       == backend_out
           sz          == local_img_size(reg, size_arg, size)
           near_center == local_near_center(items, nr)
           candidates  == local_candidates(items, tgt, ex, reg, sz)
           ranked      == local_ranked(candidates, near_center)
       IN  [status |-> "returned", items |-> items, img_size |-> sz,
            near_center |-> near_center, candidates |-> candidates,
            ret |-> IF candidates # <<>> THEN Some(ranked[1])
                    ELSE IF items # <<>> THEN Some(items[1]) ELSE None]

\* lines 184-241: the locals of find_text_item at its return, local mode.
\* recognize() raises for a path the local model cannot read.
local_run(backend_out, size, exists, tgt, ex, reg, nr, size_arg) ==
  IF ~exists
  THEN [status |-> "raised", items |-> <<>>, img_size |-> None,
        near_center |-> None, candidates |-> <<>>, ret |-> None]
  ELSE LET items       == backend_out
           sz          == local_img_size(reg, size_arg, size)
           near_center == local_near_center(items, nr)
           candidates  == local_candidates(items, tgt, ex, reg, sz)
           ranked      == local_ranked(candidates, near_center)
       IN  [status |-> "returned", items |-> items, img_size |-> sz,
            near_center |-> near_center, candidates |-> candidates,
            ret |-> IF candidates = <<>> THEN None ELSE Some(ranked[1])]

\* ------------------------------------------------------------------------
\* ocr_server.py: recognize_image and the /find handler;
\* ocr.py: find_text_item, remote mode (the client of /find)
\* ------------------------------------------------------------------------

\* a faulty sort: the key is (center.x, center.y)
recognize_image_xy(backend_out) ==
  stable_sort(backend_out,
    [i \in 1..Len(backend_out) |->
       << backend_out[i].center[1], backend_out[i].center[2] >>])

\* line 102: items.sort(key=lambda item: (item["center"][1], item["center"][0]))
recognize_image(backend_out) ==
  stable_sort(backend_out,
    [i \in 1..Len(backend_out) |->
       << backend_out[i].center[2], backend_out[i].center[1] >>])

\* lines 202-208
server_near_center(items, near) ==
  IF truthy(near)
  THEN LET hits == { i \in 1..Len(items) :
                       str_in(lower(near[1]), lower(items[i].text)) }
       IN  IF hits = {} THEN None
           ELSE Some(items[CHOOSE i \in hits : \A j \in hits : i <= j].center)
  ELSE None

\* lines 213-218
server_text_skip(item, target, exact) ==
  IF exact
  THEN item.text # target
  ELSE ~str_in(lower(target), lower(item.text))

\* lines 220-233
server_region_skip(item, region, img_size) ==
  IF truthy_name(region) /\ img_size # None
  THEN LET cx == item.center[1]
           cy == item.center[2]
           w  == img_size[1][1]
           h  == img_size[1][2]
           r  == region[1]
       IN  IF r = "top" /\ frac_lt(h, 4, cy) THEN TRUE
           ELSE IF r = "bottom" /\ frac_gt(h, 6, cy) THEN TRUE
           ELSE IF r = "left" /\ frac_lt(w, 4, cx) THEN TRUE
           ELSE IF r = "right" /\ frac_gt(w, 6, cx) THEN TRUE
           ELSE IF r = "center"
                THEN ~(frac_lt(w, 3, cx) /\ frac_gt(w, 7, cx)
                       /\ frac_lt(h, 3, cy) /\ frac_gt(h, 7, cy))
                ELSE FALSE
  ELSE FALSE

\* lines 211-235
server_candidates(items, target, exact, region, img_size) ==
  SelectSeq(items, LAMBDA item :
     ~server_text_skip(item, target, exact)
     /\ ~server_region_skip(item, region, img_size))

\* lines 241-246
server_ranked(candidates, near_center) ==
  IF near_center # None /\ Len(candidates) > 1
  THEN stable_sort(candidates,
         [i \in 1..Len(candidates) |-> << distance(candidates[i], near_center) >>])
  ELSE candidates

\* ocr_server.py lines 188-251 with ocr.py lines 163-181: the handler's locals
\* and response (resp), and what the client returns for it (status, ret).
\*   - process_image raises HTTPException(400) for a missing path; the body
\*     {"detail": ...} has no "ok", so the client returns None.
\*   - Image.open raising is not caught: the response is a 500 whose body is
\*     not JSON, and the client's resp.json() raises.
remote_run(backend_out, size, exists, tgt, ex, reg, nr) ==
  IF ~exists
  THEN [status |-> "returned", resp |-> "http_400", items |-> <<>>,
        img_size |-> None, near_center |-> None, candidates |-> <<>>,
        ret |-> None]
  ELSE LET items == recognize_image(backend_out)
       IN  IF truthy_name(reg) /\ size = None
           THEN [status |-> "raised", resp |-> "http_500", items |-> items,
                 img_size |-> None, near_center |-> None,
                 candidates |-> <<>>, ret |-> None]
           ELSE LET sz          == IF truthy_name(reg) THEN size ELSE None
                    near_center == server_near_center(items, nr)
                    candidates  == server_candidates(items, tgt, ex, reg, sz)
                    ranked      == server_ranked(candidates, near_center)
                IN  IF candidates = <<>>
                    THEN [status |-> "returned", resp |-> "not_found",
                          items |-> items, img_size |-> sz,
                          near_center |-> near_center,
                          candidates |-> candidates, ret |-> None]
                    ELSE [status |-> "returned", resp |-> "ok",
                          items |-> items, img_size |-> sz,
                          near_center |-> near_center,
                          candidates |-> candidates, ret |-> Some(ranked[1])]

\* ------------------------------------------------------------------------
\* ocr.py: backend selection
\* ------------------------------------------------------------------------

\* a faulty probe: the cached choice is ignored and /health is asked each time
check_server_uncached(ua, srv) ==
  [use_api |-> Some(srv = "up"), probed |-> TRUE, result |-> (srv = "up")]

\* lines 16-26, _check_server: the new _use_api, whether GET /health was
\* sent, and the value returned. status_code == 200 only for a server that is
\* up; an unreachable server raises inside the try and gives False.
check_server(ua, srv) ==
  IF ua # None
  THEN [use_api |-> ua, probed |-> FALSE, result |-> ua[1]]
  ELSE [use_api |-> Some(srv = "up"), probed |-> TRUE, result |-> (srv = "up")]

\* lines 29-41, _get_local_ocr: the new _ocr, whether PaddleOCR(...) built an
\* instance, and whether the constructor raised (loads is FALSE)
get_local_ocr(o, loads) ==
  IF o = None
  THEN IF loads
       THEN [ocr |-> Some("PaddleOCR"), constructed |-> TRUE, raised |-> FALSE]
       ELSE [ocr |-> None, constructed |-> FALSE, raised |-> TRUE]
  ELSE [ocr |-> o, constructed |-> FALSE, raised |-> FALSE]

\* lines 91-100, recognize, with _recognize_api (75-88) and _recognize_local
\* (44-72), entered with _use_api = ua and _ocr = o: the globals afterwards
\* and what the call did. httpx.post raises when the server is not up.
recognize_step(ua, o, srv, loads) ==
  LET cs == check_server(ua, srv)
  IN  IF cs.result
      THEN [use_api |-> cs.use_api, ocr |-> o, mode |-> "api",
            probed |-> cs.probed, constructed |-> FALSE,
            raised |-> (srv # "up")]
      ELSE LET g == get_local_ocr(o, loads)
           IN  [use_api |-> cs.use_api, ocr |-> g.ocr, mode |-> "local",
                probed |-> cs.probed, constructed |-> g.constructed,
                raised |-> g.raised]

\* lines 162-184, find_text_item: _check_server() first; the API path posts
\* to /find, the local path goes through recognize(), which asks
\* _check_server() again
find_text_item_step(ua, o, srv, loads) ==
  LET cs == check_server(ua, srv)
  IN  IF cs.result
      THEN [use_api |-> cs.use_api, ocr |-> o, mode |-> "api",
            probed |-> cs.probed, constructed |-> FALSE,
            raised |-> (srv # "up")]
      ELSE LET r == recognize_step(cs.use_api, o, srv, loads)
           IN  [r EXCEPT !.probed = cs.probed \/ r.probed]

\* ------------------------------------------------------------------------
\* State
\* ------------------------------------------------------------------------

VARIABLES
  \* one resolution of a query, on both paths (specification Spec)
  backend,        \* what the OCR backend reports for the image, as items
  image_size,     \* Some(<<W, H>>), or None when PIL cannot open the image
  path_exists,    \* the image path names a readable file
  target,         \* the query
  exact,
  region,
  near,
  img_size_arg,   \* find_text_item's img_size argument (local mode reads it)
  local,          \* find_text_item in a process whose backend is local
  remote,         \* find_text_item in a process whose backend is remote
  \* one process of ocr.py and its OCR server (specification SpecBackend)
  use_api,        \* _use_api: None, Some(TRUE) (API) or Some(FALSE) (local)
  ocr,            \* _ocr: None or Some("PaddleOCR")
  server,         \* the server's /health: "up" (200), "unhealthy", "down"
  probes,         \* GET /health requests sent so far
  constructions,  \* PaddleOCR(...) instances constructed so far
  calls,          \* the calls made so far: [fn, mode, probed, constructed, raised]
  \* one invocation of a browser workflow of main.py (specification SpecWorkflow)
  wf,             \* the function invoked
  w_target,       \* its arguments: target, click, wait_after_click,
  w_click,        \*   expect_text, expect_gone, save_screenshot (given or not)
  w_wait,
  w_expect_text,
  w_expect_gone,
  w_save,
  screen_before,  \* what recognition finds on the page before the click
  screen_after,   \*   and after it
  dpr,            \* window.devicePixelRatio
  pc,             \* the block of the function that runs next
  playwright,     \* the automation driver p: "none", "running", "stopped"
  screenshot_path,\* None or Some("tmp.png")
  tmp_exists,     \* the temp file exists
  tmp_content,    \* the screenshot it holds: "empty", "before", "after"
  error_occurred,
  w_item,         \* item: what find_text_item returned
  new_items,      \* None, or Some(items) once the page was recognized
                  \*   again after the click
  clicks,         \* the mouse clicks dispatched, as <<x, y>>
  debug,          \* reasons of the debug artifacts written
  save_attempts,  \* calls of save_error_screenshot
  exc,            \* the exception in flight: None, Some("step") (a browser
                  \*   or backend call raised), Some("save") (the artifact
                  \*   copy raised), Some("exit") (sys.exit(1))
  failure,        \* the failure being handled: "none", "not_found",
                  \*   "expect_failed", "still_exists", "click_failed", "step"
  outcome,        \* what the caller is told
  trace,          \* the steps taken, in order
  \* one detection through the recognition adapter (specification SpecAdapter)
  box,            \* the detection polygon, coordinates in half pixels
  adapted,        \* None, or Some(item) once the adapter has built the item
  \* one call of _build_text (specification SpecBuildText)
  text_items,     \* the items handed to _build_text
  built           \* None, or Some(lines) once _build_text has returned

rvars == << backend, image_size, path_exists, target, exact, region, near,
            img_size_arg, local, remote >>

bvars == << use_api, ocr, server, probes, constructions, calls >>

winputs == << wf, w_target, w_click, w_wait, w_expect_text, w_expect_gone,
              w_save, screen_before, screen_after, dpr >>

wstate == << pc, playwright, screenshot_path, tmp_exists, tmp_content,
             error_occurred, w_item, new_items, clicks, debug, save_attempts,
             exc, failure, outcome, trace >>

wvars == << winputs, wstate >>

pvars == << box, adapted, text_items, built >>

vars == << rvars, bvars, wvars, pvars >>

Pending ==
  [status |-> "pending", items |-> <<>>, img_size |-> None,
   near_center |-> None, candidates |-> <<>>, ret |-> None]

PendingRemote ==
  [status |-> "pending", resp |-> "", items |-> <<>>, img_size |-> None,
   near_center |-> None, candidates |-> <<>>, ret |-> None]

\* ------------------------------------------------------------------------
\* Inputs of the resolver
\* ------------------------------------------------------------------------

Chars == {"a", "A", "b"}

\* the strings over Chars of length lo..hi
Strs(lo, hi) == UNION { [1..k -> Chars] : k \in lo..hi }

Item(t, cx, cy) == [text |-> t, center |-> <<cx, cy>>]

Regions == { None, Some(""), Some("top"), Some("bottom"), Some("left"),
             Some("right"), Some("center") }

\* text-filter inputs: one item, every text against every target
InitText ==
  /\ \E t \in Strs(1, MaxTextLen) : backend = << Item(t, 5, 5) >>
  /\ target \in Strs(0, MaxTextLen)
  /\ exact \in BOOLEAN
  /\ image_size = Some(<<10, 10>>)
  /\ path_exists = TRUE
  /\ region = None
  /\ near = None
  /\ img_size_arg = None

\* region-filter inputs: one matching item anywhere, every region and size
ImgDims == {5, MaxCoord}

ImgSizes == { Some(<<w, h>>) : w \in ImgDims, h \in ImgDims }

InitRegion ==
  /\ \E cx \in 0..MaxCoord, cy \in 0..MaxCoord :
        backend = << Item(<<"a">>, cx, cy) >>
  /\ target = <<"a">>
  /\ exact = FALSE
  /\ image_size \in ImgSizes \cup {None}
  /\ path_exists = TRUE
  /\ region \in Regions
  /\ near = None
  /\ img_size_arg \in ImgSizes \cup {None}

\* ranking inputs: up to MaxItems items of two texts at three places, two of
\* them on one line and at one distance from the third
RankTexts == { <<"a">>, <<"A", "b">> }

RankPoints == { <<5, 1>>, <<1, 5>>, <<9, 5>> }

RankItems == { [text |-> t, center |-> p] : t \in RankTexts, p \in RankPoints }

InitRank ==
  /\ backend \in UNION { [1..k -> RankItems] : k \in 0..MaxItems }
  /\ target \in { <<"a">>, <<"b">> }
  /\ exact \in BOOLEAN
  /\ image_size = Some(<<10, 10>>)
  /\ path_exists = TRUE
  /\ region \in { None, Some("top") }
  /\ near \in { None, Some(<<>>), Some(<<"a">>), Some(<<"b">>), Some(<<"c">>) }
  /\ img_size_arg = None

\* the end-to-end scenarios of the specification: "Login" and "Cancel" side by
\* side (bbox (10,10,60,30) and (100,10,160,30)), and "posts" below them
Login == << "L", "o", "g", "i", "n" >>

Cancel == << "C", "a", "n", "c", "e", "l" >>

InitScenario ==
  /\ backend \in
       { << Item(Login, 35, 20), Item(Cancel, 130, 20) >>,
         << Item(<<"p", "o", "s", "t", "s">>, 35, 80), Item(Login, 35, 20),
            Item(Cancel, 130, 20), Item(Login, 130, 80) >> }
  /\ target \in { Login, lower(Login), <<"P", "o", "s", "t">>, Cancel }
  /\ exact \in BOOLEAN
  /\ image_size \in { Some(<<200, 100>>), None }
  /\ path_exists \in BOOLEAN
  /\ region \in { None, Some("left"), Some("bottom") }
  /\ near \in { None, Some(Login), Some(lower(Cancel)) }
  /\ img_size_arg = None

\* the process of ocr.py before its first call
BackendIdle ==
  /\ use_api = None
  /\ ocr = None
  /\ server = "up"
  /\ probes = 0
  /\ constructions = 0
  /\ calls = <<>>

\* no pure function is looked at
PureIdle ==
  /\ box = <<>>
  /\ adapted = None
  /\ text_items = <<>>
  /\ built = None

\* no workflow runs
WorkflowIdle ==
  /\ wf = "none"
  /\ w_target = None
  /\ w_click = FALSE
  /\ w_wait = 0
  /\ w_expect_text = None
  /\ w_expect_gone = None
  /\ w_save = FALSE
  /\ screen_before = <<>>
  /\ screen_after = <<>>
  /\ dpr = 1
  /\ pc = "done"
  /\ playwright = "none"
  /\ screenshot_path = None
  /\ tmp_exists = FALSE
  /\ tmp_content = "empty"
  /\ error_occurred = FALSE
  /\ w_item = None
  /\ new_items = None
  /\ clicks = <<>>
  /\ debug = <<>>
  /\ save_attempts = 0
  /\ exc = None
  /\ failure = "none"
  /\ outcome = "none"
  /\ trace = <<>>

Init ==
  /\ InitText \/ InitRegion \/ InitRank \/ InitScenario
  /\ local = Pending
  /\ remote = PendingRemote
  /\ BackendIdle
  /\ WorkflowIdle
  /\ PureIdle

\* ------------------------------------------------------------------------
\* Operations of the resolver
\* ------------------------------------------------------------------------

\* ocr.py find_text_item, _check_server() false
find_text_item_local ==
  /\ local.status = "pending"
  /\ local' = local_run(backend, image_size, path_exists, target, exact,
                        region, near, img_size_arg)
  /\ UNCHANGED << backend, image_size, path_exists, target, exact, region,
                  near, img_size_arg, remote, bvars, wvars, pvars >>

\* ocr.py find_text_item, _check_server() true: POST /find and its handler
find_text_item_remote ==
  /\ remote.status = "pending"
  /\ remote' = remote_run(backend, image_size, path_exists, target, exact,
                          region, near)
  /\ UNCHANGED << backend, image_size, path_exists, target, exact, region,
                  near, img_size_arg, local, bvars, wvars, pvars >>

Next == find_text_item_local \/ find_text_item_remote

Spec == Init /\ [][Next]_vars

\* ------------------------------------------------------------------------
\* The process of ocr.py: calls of recognize, find_text and find_text_item,
\* while the server comes and goes
\* ------------------------------------------------------------------------

\* longest sequence of calls in one process
MaxCalls == 3

\* no resolution is looked at
ResolverIdle ==
  /\ backend = <<>>
  /\ image_size = None
  /\ path_exists = TRUE
  /\ target = <<>>
  /\ exact = FALSE
  /\ region = None
  /\ near = None
  /\ img_size_arg = None
  /\ local = Pending
  /\ remote = PendingRemote

InitBackend ==
  /\ use_api = None
  /\ ocr = None
  /\ server \in {"up", "unhealthy", "down"}
  /\ probes = 0
  /\ constructions = 0
  /\ calls = <<>>
  /\ ResolverIdle
  /\ WorkflowIdle
  /\ PureIdle

\* the globals and the counters after a call that did r
after_call(fn, r) ==
  /\ use_api' = r.use_api
  /\ ocr' = r.ocr
  /\ probes' = probes + (IF r.probed THEN 1 ELSE 0)
  /\ constructions' = constructions + (IF r.constructed THEN 1 ELSE 0)
  /\ calls' = Append(calls, [fn |-> fn, mode |-> r.mode, probed |-> r.probed,
                             constructed |-> r.constructed, raised |-> r.raised])
  /\ UNCHANGED << server, rvars, wvars, pvars >>

\* ocr.py recognize(img_path)
call_recognize ==
  /\ Len(calls) < MaxCalls
  /\ \E loads \in BOOLEAN :
        after_call("recognize", recognize_step(use_api, ocr, server, loads))

\* ocr.py find_text(img_path, target, ...): recognize() and a filter
call_find_text ==
  /\ Len(calls) < MaxCalls
  /\ \E loads \in BOOLEAN :
        after_call("find_text", recognize_step(use_api, ocr, server, loads))

\* ocr.py find_text_item(img_path, target, ...)
call_find_text_item ==
  /\ Len(calls) < MaxCalls
  /\ \E loads \in BOOLEAN :
        after_call("find_text_item",
                   find_text_item_step(use_api, ocr, server, loads))

\* ocr.py lines 257-258: --local sets _use_api = False before the first call
force_local ==
  /\ calls = <<>>
  /\ use_api = None
  /\ use_api' = Some(FALSE)
  /\ UNCHANGED << ocr, server, probes, constructions, calls, rvars, wvars, pvars >>

\* the environment: the server starts, stops or turns unhealthy
server_changes ==
  /\ server' \in {"up", "unhealthy", "down"} \ {server}
  /\ UNCHANGED << use_api, ocr, probes, constructions, calls, rvars, wvars, pvars >>

NextBackend ==
  \/ call_recognize
  \/ call_find_text
  \/ call_find_text_item
  \/ force_local
  \/ server_changes

SpecBackend == InitBackend /\ [][NextBackend]_vars

\* ------------------------------------------------------------------------
\* main.py: the browser workflows
\* ------------------------------------------------------------------------

\* main.py line 58: wait_after_click defaults to 3 seconds
DefaultWait == 3

RECURSIVE join(_, _)
\* str.join: sep.join(strs)
join(sep, strs) ==
  IF strs = <<>> THEN <<>>
  ELSE IF Len(strs) = 1 THEN strs[1]
  ELSE strs[1] \o sep \o join(sep, Tail(strs))

\* line 109: " ".join([i["text"] for i in new_items])
new_texts_str(items) ==
  join(<< " " >>, [i \in 1..Len(items) |-> items[i].text])

\* lines 109-129: which verification fails on the newly recognized items
verify(expect_text, expect_gone, items) ==
  LET blob == lower(new_texts_str(items))
  IN  IF truthy(expect_text) /\ ~str_in(lower(expect_text[1]), blob)
      THEN "expect_failed"
      ELSE IF truthy(expect_gone) /\ str_in(lower(expect_gone[1]), blob)
      THEN "still_exists"
      ELSE "ok"

\* lines 93, 195, 233: find_text_item(screenshot_path, target) on a screenshot
\* that exists, with neither region nor near
find_item(screen, tgt) ==
  local_run(screen, Some(<< 1280, 720 >>), TRUE, tgt, FALSE,
            None, None, None).ret

\* lines 100, 201: int(cx / dpr), int(cy / dpr)
actual_xy(it, ratio) == << it.center[1] \div ratio, it.center[2] \div ratio >>

\* a faulty copy: the artifact is never written
save_error_screenshot_lost(ok, reason) ==
  /\ save_attempts' = save_attempts + 1
  /\ debug' = debug

\* lines 31-39, save_error_screenshot: mkdir and shutil.copy of the temp file
\* to the debug directory; ok is FALSE when one of them raises
save_error_screenshot(ok, reason) ==
  /\ save_attempts' = save_attempts + 1
  /\ debug' = IF ok THEN Append(debug, reason) ELSE debug

\* the first failure met stays recorded
first_failure(f) == IF failure = "none" THEN f ELSE failure

\* what leaves the function: an exception that propagates, or what was
\* reported before sys.exit(1) or the return
propagated(e, o) ==
  IF e = Some("step") THEN "error"
  ELSE IF e = Some("save") THEN "save_error"
  ELSE o

Go == << "G", "o" >>

Ok == << "o", "k" >>

WTargets == { None, Some(Go), Some(<< "x" >>) }

ScreensBefore ==
  { << Item(Go, 40, 61) >>,
    << Item(Ok, 10, 10), Item(Go, 41, 60) >> }

ScreensAfter ==
  { << >>,
    << Item(Ok, 10, 10) >>,
    << Item(<< "O", "K" >>, 10, 10), Item(Go, 40, 61) >>,
    << Item(<< "o" >>, 10, 10), Item(<< "k" >>, 20, 10) >>,
    << Item(Go, 40, 61) >> }

ExpectTexts == { None, Some(<< >>), Some(Ok), Some(<< "o", " ", "k" >>) }

ExpectGones == { None, Some(<< >>), Some(Go), Some(<< "O", "K" >>) }

\* nothing has run yet
WorkflowStart ==
  /\ pc = "connect"
  /\ playwright = "none"
  /\ screenshot_path = None
  /\ tmp_exists = FALSE
  /\ tmp_content = "empty"
  /\ error_occurred = FALSE
  /\ w_item = None
  /\ new_items = None
  /\ clicks = <<>>
  /\ debug = <<>>
  /\ save_attempts = 0
  /\ exc = None
  /\ failure = "none"
  /\ outcome = "none"
  /\ trace = <<>>

\* lines 51-64: a call of screenshot_ocr
InitScreenshotOcr ==
  /\ wf = "screenshot_ocr"
  /\ w_target \in WTargets
  /\ w_click \in BOOLEAN
  /\ w_wait \in {0, DefaultWait}
  /\ w_expect_text \in ExpectTexts
  /\ w_expect_gone \in ExpectGones
  /\ w_save \in BOOLEAN
  /\ screen_before \in ScreensBefore
  /\ screen_after \in ScreensAfter
  /\ dpr \in {1, 2}

\* lines 172-177: a call of ocr_and_click; it always clicks and never verifies
InitOcrAndClick ==
  /\ wf = "ocr_and_click"
  /\ w_target \in WTargets \ {None}
  /\ w_click = TRUE
  /\ w_wait = 0
  /\ w_expect_text = None
  /\ w_expect_gone = None
  /\ w_save = FALSE
  /\ screen_before \in ScreensBefore
  /\ screen_after \in ScreensAfter
  /\ dpr \in {1, 2}

\* line 217: a call of screenshot_and_ocr_url; it never clicks
InitUrl ==
  /\ wf = "screenshot_and_ocr_url"
  /\ w_target \in WTargets
  /\ w_click = FALSE
  /\ w_wait = 0
  /\ w_expect_text = None
  /\ w_expect_gone = None
  /\ w_save = FALSE
  /\ screen_before \in ScreensBefore
  /\ screen_after = <<>>
  /\ dpr = 1

InitWorkflow ==
  /\ InitScreenshotOcr \/ InitOcrAndClick \/ InitUrl
  /\ WorkflowStart
  /\ ResolverIdle
  /\ BackendIdle
  /\ PureIdle

\* lines 42-48, connect_browser, called at lines 76 and 184 before the try
\* block is entered: the driver is started, then connecting may raise
connect_browser ==
  /\ wf \in {"screenshot_ocr", "ocr_and_click"}
  /\ pc = "connect"
  /\ playwright' = "running"
  /\ trace' = Append(trace, "connect")
  /\ \E ok \in BOOLEAN :
       IF ok
       THEN pc' = "shoot" /\ UNCHANGED << exc, failure, outcome >>
       ELSE /\ pc' = "done"
            /\ exc' = Some("step")
            /\ failure' = "step"
            /\ outcome' = "error"
  /\ UNCHANGED << screenshot_path, tmp_exists, tmp_content, error_occurred,
                  w_item, new_items, clicks, debug, save_attempts >>
  /\ UNCHANGED << winputs, rvars, bvars, pvars >>

\* screenshot_ocr lines 81-92: the temp file, the screenshot, the copy asked
\* for with save_screenshot
screenshot_ocr_shoot ==
  /\ wf = "screenshot_ocr"
  /\ pc = "shoot"
  /\ \E r \in {"ok", "tempfile_raises", "screenshot_raises"}
               \cup (IF w_save THEN {"copy_raises"} ELSE {}) :
       /\ screenshot_path' = IF r = "tempfile_raises" THEN None
                             ELSE Some("tmp.png")
       /\ tmp_exists' = (r # "tempfile_raises")
       /\ tmp_content' = IF r \in {"ok", "copy_raises"} THEN "before"
                         ELSE "empty"
       /\ trace' = IF r = "tempfile_raises" THEN trace
                   ELSE Append(trace, "screenshot")
       /\ IF r = "ok"
          THEN /\ pc' = IF truthy(w_target) THEN "resolve" ELSE "list"
               /\ UNCHANGED << exc, failure >>
          ELSE /\ pc' = "except"
               /\ exc' = Some("step")
               /\ failure' = "step"
  /\ UNCHANGED << playwright, error_occurred, w_item, new_items, clicks,
                  debug, save_attempts, outcome >>
  /\ UNCHANGED << winputs, rvars, bvars, pvars >>

\* screenshot_ocr lines 93-97 and 136-141: the target is resolved in the
\* screenshot; a found item that is not to be clicked is reported
screenshot_ocr_resolve ==
  /\ wf = "screenshot_ocr"
  /\ pc = "resolve"
  /\ trace' = Append(trace, "resolve")
  /\ \E raises \in BOOLEAN :
       IF raises
       THEN /\ pc' = "except"
            /\ exc' = Some("step")
            /\ failure' = "step"
            /\ UNCHANGED << w_item, outcome >>
       ELSE /\ w_item' = find_item(screen_before, w_target[1])
            /\ UNCHANGED << exc, failure >>
            /\ IF w_item' = None
               THEN pc' = "not_found" /\ outcome' = outcome
               ELSE IF w_click
               THEN pc' = "click" /\ outcome' = outcome
               ELSE pc' = "finally" /\ outcome' = "found"
  /\ UNCHANGED << playwright, screenshot_path, tmp_exists, tmp_content,
                  error_occurred, new_items, clicks, debug, save_attempts >>
  /\ UNCHANGED << winputs, rvars, bvars, pvars >>

\* a faulty click: the mouse click is dispatched twice
screenshot_ocr_click_twice ==
  /\ wf = "screenshot_ocr"
  /\ pc = "click"
  /\ \E raises \in BOOLEAN :
       IF raises
       THEN /\ pc' = "except"
            /\ exc' = Some("step")
            /\ failure' = "step"
            /\ UNCHANGED << clicks, trace, outcome >>
       ELSE /\ clicks' = clicks \o << actual_xy(w_item[1], dpr),
                                      actual_xy(w_item[1], dpr) >>
            /\ trace' = trace \o << "click", "click" >>
            /\ UNCHANGED << exc, failure >>
            /\ IF w_wait > 0
               THEN pc' = "verify" /\ outcome' = outcome
               ELSE pc' = "finally" /\ outcome' = "clicked"
  /\ UNCHANGED << playwright, screenshot_path, tmp_exists, tmp_content,
                  error_occurred, w_item, new_items, debug, save_attempts >>
  /\ UNCHANGED << winputs, rvars, bvars, pvars >>

\* screenshot_ocr lines 98-103 and 131-135: the click at the corrected
\* coordinates; without a positive wait the click is reported at once
screenshot_ocr_click ==
  /\ wf = "screenshot_ocr"
  /\ pc = "click"
  /\ \E raises \in BOOLEAN :
       IF raises
       THEN /\ pc' = "except"
            /\ exc' = Some("step")
            /\ failure' = "step"
            /\ UNCHANGED << clicks, trace, outcome >>
       ELSE /\ clicks' = Append(clicks, actual_xy(w_item[1], dpr))
            /\ trace' = Append(trace, "click")
            /\ UNCHANGED << exc, failure >>
            /\ IF w_wait > 0
               THEN pc' = "verify" /\ outcome' = outcome
               ELSE pc' = "finally" /\ outcome' = "clicked"
  /\ UNCHANGED << playwright, screenshot_path, tmp_exists, tmp_content,
                  error_occurred, w_item, new_items, debug, save_attempts >>
  /\ UNCHANGED << winputs, rvars, bvars, pvars >>

\* screenshot_ocr lines 104-135: the wait, the second screenshot, the second
\* recognition and the two verifications; a failed verification saves the
\* artifact, reports and leaves with sys.exit(1)
screenshot_ocr_verify ==
  /\ wf = "screenshot_ocr"
  /\ pc = "verify"
  /\ LET v == verify(w_expect_text, w_expect_gone, screen_after)
     IN  \E r \in {"ok", "screenshot_raises", "recognize_raises"}
                   \cup (IF v # "ok" THEN {"save_raises"} ELSE {}) :
           /\ tmp_content' = IF r = "screenshot_raises" THEN tmp_content
                             ELSE "after"
           /\ new_items' = IF r \in {"screenshot_raises", "recognize_raises"}
                           THEN None ELSE Some(screen_after)
           /\ trace' = trace \o << "wait", "screenshot" >>
                         \o (IF r = "screenshot_raises" THEN <<>>
                             ELSE << "recognize" >>)
                         \o (IF r \in {"ok", "save_raises"} /\ v # "ok"
                             THEN << "save" >> ELSE <<>>)
           /\ IF r \in {"screenshot_raises", "recognize_raises"}
              THEN /\ pc' = "except"
                   /\ exc' = Some("step")
                   /\ failure' = "step"
                   /\ UNCHANGED << debug, save_attempts, outcome >>
              ELSE IF v = "ok"
              THEN /\ pc' = "finally"
                   /\ outcome' = "clicked"
                   /\ UNCHANGED << debug, save_attempts, exc, failure >>
              ELSE /\ save_error_screenshot(r = "ok", v)
                   /\ failure' = v
                   /\ IF r = "ok"
                      THEN /\ pc' = "finally"
                           /\ exc' = Some("exit")
                           /\ outcome' = v
                      ELSE /\ pc' = "except"
                           /\ exc' = Some("save")
                           /\ outcome' = outcome
  /\ UNCHANGED << playwright, screenshot_path, tmp_exists, error_occurred,
                  w_item, clicks >>
  /\ UNCHANGED << winputs, rvars, bvars, pvars >>

\* screenshot_ocr lines 142-151: nothing was resolved
screenshot_ocr_not_found ==
  /\ wf = "screenshot_ocr"
  /\ pc = "not_found"
  /\ error_occurred' = TRUE
  /\ \E r \in {"ok", "save_raises", "recognize_raises"} :
       /\ failure' = IF r = "recognize_raises" THEN "step" ELSE "not_found"
       /\ save_error_screenshot(r # "save_raises", "not_found")
       /\ trace' = trace \o << "save" >>
                     \o (IF r = "save_raises" THEN <<>> ELSE << "recognize" >>)
       /\ IF r = "ok"
          THEN pc' = "finally" /\ exc' = Some("exit") /\ outcome' = "not_found"
          ELSE /\ pc' = "except"
               /\ exc' = IF r = "save_raises" THEN Some("save")
                         ELSE Some("step")
               /\ outcome' = outcome
  /\ UNCHANGED << playwright, screenshot_path, tmp_exists, tmp_content,
                  w_item, new_items, clicks >>
  /\ UNCHANGED << winputs, rvars, bvars, pvars >>

\* screenshot_ocr lines 152-159: no target, every item is listed
screenshot_ocr_list ==
  /\ wf = "screenshot_ocr"
  /\ pc = "list"
  /\ trace' = Append(trace, "recognize")
  /\ \E raises \in BOOLEAN :
       IF raises
       THEN /\ pc' = "except"
            /\ exc' = Some("step")
            /\ failure' = "step"
            /\ outcome' = outcome
       ELSE /\ pc' = "finally"
            /\ outcome' = "listed"
            /\ UNCHANGED << exc, failure >>
  /\ UNCHANGED << playwright, screenshot_path, tmp_exists, tmp_content,
                  error_occurred, w_item, new_items, clicks, debug,
                  save_attempts >>
  /\ UNCHANGED << winputs, rvars, bvars, pvars >>

\* screenshot_ocr lines 161-165: `except Exception`, which sys.exit(1) does
\* not reach; an exception raised by the copy replaces the one being handled
screenshot_ocr_except ==
  /\ wf = "screenshot_ocr"
  /\ pc = "except"
  /\ error_occurred' = TRUE
  /\ IF screenshot_path # None /\ tmp_exists
     THEN \E ok \in BOOLEAN :
            /\ save_error_screenshot(ok, "error")
            /\ exc' = IF ok THEN exc ELSE Some("save")
            /\ trace' = Append(trace, "save")
     ELSE UNCHANGED << debug, save_attempts, exc, trace >>
  /\ pc' = "finally"
  /\ UNCHANGED << playwright, screenshot_path, tmp_exists, tmp_content,
                  w_item, new_items, clicks, failure, outcome >>
  /\ UNCHANGED << winputs, rvars, bvars, pvars >>

\* screenshot_ocr lines 166-169: finally
screenshot_ocr_finally ==
  /\ wf = "screenshot_ocr"
  /\ pc = "finally"
  /\ LET unlink == screenshot_path # None /\ tmp_exists /\ ~error_occurred
     IN  /\ tmp_exists' = IF unlink THEN FALSE ELSE tmp_exists
         /\ trace' = trace \o (IF unlink THEN << "unlink" >> ELSE <<>>)
                       \o << "stop" >>
  /\ playwright' = "stopped"
  /\ outcome' = propagated(exc, outcome)
  /\ pc' = "done"
  /\ UNCHANGED << screenshot_path, tmp_content, error_occurred, w_item,
                  new_items, clicks, debug, save_attempts, exc, failure >>
  /\ UNCHANGED << winputs, rvars, bvars, pvars >>

\* ocr_and_click lines 188-194: the temp file and the screenshot
ocr_and_click_shoot ==
  /\ wf = "ocr_and_click"
  /\ pc = "shoot"
  /\ \E r \in {"ok", "tempfile_raises", "screenshot_raises"} :
       /\ screenshot_path' = IF r = "tempfile_raises" THEN None
                             ELSE Some("tmp.png")
       /\ tmp_exists' = (r # "tempfile_raises")
       /\ tmp_content' = IF r = "ok" THEN "before" ELSE "empty"
       /\ trace' = IF r = "tempfile_raises" THEN trace
                   ELSE Append(trace, "screenshot")
       /\ IF r = "ok"
          THEN pc' = "resolve" /\ UNCHANGED << exc, failure >>
          ELSE pc' = "except" /\ exc' = Some("step") /\ failure' = "step"
  /\ UNCHANGED << playwright, error_occurred, w_item, new_items, clicks,
                  debug, save_attempts, outcome >>
  /\ UNCHANGED << winputs, rvars, bvars, pvars >>

\* ocr_and_click lines 195-197
ocr_and_click_resolve ==
  /\ wf = "ocr_and_click"
  /\ pc = "resolve"
  /\ trace' = Append(trace, "resolve")
  /\ \E raises \in BOOLEAN :
       IF raises
       THEN /\ pc' = "except"
            /\ exc' = Some("step")
            /\ failure' = "step"
            /\ w_item' = w_item
       ELSE /\ w_item' = find_item(screen_before, w_target[1])
            /\ UNCHANGED << exc, failure >>
            /\ pc' = IF w_item' = None THEN "click_failed" ELSE "click"
  /\ UNCHANGED << playwright, screenshot_path, tmp_exists, tmp_content,
                  error_occurred, new_items, clicks, debug, save_attempts,
                  outcome >>
  /\ UNCHANGED << winputs, rvars, bvars, pvars >>

\* ocr_and_click lines 198-204: the click, the unlink, the coordinates
\* returned
ocr_and_click_click ==
  /\ wf = "ocr_and_click"
  /\ pc = "click"
  /\ \E raises \in BOOLEAN :
       IF raises
       THEN /\ pc' = "except"
            /\ exc' = Some("step")
            /\ failure' = "step"
            /\ UNCHANGED << clicks, tmp_exists, trace, outcome >>
       ELSE /\ clicks' = Append(clicks, actual_xy(w_item[1], dpr))
            /\ tmp_exists' = FALSE
            /\ trace' = trace \o << "click", "unlink" >>
            /\ pc' = "finally"
            /\ outcome' = "clicked"
            /\ UNCHANGED << exc, failure >>
  /\ UNCHANGED << playwright, screenshot_path, tmp_content, error_occurred,
                  w_item, new_items, debug, save_attempts >>
  /\ UNCHANGED << winputs, rvars, bvars, pvars >>

\* ocr_and_click lines 205-208: nothing was resolved, None is returned
ocr_and_click_failed ==
  /\ wf = "ocr_and_click"
  /\ pc = "click_failed"
  /\ failure' = "click_failed"
  /\ trace' = Append(trace, "save")
  /\ \E ok \in BOOLEAN :
       /\ save_error_screenshot(ok, "click_failed")
       /\ IF ok
          THEN pc' = "finally" /\ outcome' = "click_failed" /\ exc' = exc
          ELSE pc' = "except" /\ outcome' = outcome /\ exc' = Some("save")
  /\ UNCHANGED << playwright, screenshot_path, tmp_exists, tmp_content,
                  error_occurred, w_item, new_items, clicks >>
  /\ UNCHANGED << winputs, rvars, bvars, pvars >>

\* ocr_and_click lines 209-212: except Exception
ocr_and_click_except ==
  /\ wf = "ocr_and_click"
  /\ pc = "except"
  /\ IF screenshot_path # None /\ tmp_exists
     THEN \E ok \in BOOLEAN :
            /\ save_error_screenshot(ok, "error")
            /\ exc' = IF ok THEN exc ELSE Some("save")
            /\ trace' = Append(trace, "save")
     ELSE UNCHANGED << debug, save_attempts, exc, trace >>
  /\ pc' = "finally"
  /\ UNCHANGED << playwright, screenshot_path, tmp_exists, tmp_content,
                  error_occurred, w_item, new_items, clicks, failure,
                  outcome >>
  /\ UNCHANGED << winputs, rvars, bvars, pvars >>

\* ocr_and_click lines 213-214: finally
ocr_and_click_finally ==
  /\ wf = "ocr_and_click"
  /\ pc = "finally"
  /\ playwright' = "stopped"
  /\ trace' = Append(trace, "stop")
  /\ outcome' = propagated(exc, outcome)
  /\ pc' = "done"
  /\ UNCHANGED << screenshot_path, tmp_exists, tmp_content, error_occurred,
                  w_item, new_items, clicks, debug, save_attempts, exc,
                  failure >>
  /\ UNCHANGED << winputs, rvars, bvars, pvars >>

\* screenshot_and_ocr_url lines 221-225: the driver is entered as a context
\* manager, then the browser is launched and the page loaded
url_open ==
  /\ wf = "screenshot_and_ocr_url"
  /\ pc = "connect"
  /\ playwright' = "running"
  /\ trace' = Append(trace, "connect")
  /\ \E ok \in BOOLEAN :
       IF ok
       THEN pc' = "shoot" /\ UNCHANGED << exc, failure >>
       ELSE pc' = "exit" /\ exc' = Some("step") /\ failure' = "step"
  /\ UNCHANGED << screenshot_path, tmp_exists, tmp_content, error_occurred,
                  w_item, new_items, clicks, debug, save_attempts, outcome >>
  /\ UNCHANGED << winputs, rvars, bvars, pvars >>

\* screenshot_and_ocr_url lines 227-232
url_shoot ==
  /\ wf = "screenshot_and_ocr_url"
  /\ pc = "shoot"
  /\ \E r \in {"ok", "tempfile_raises", "screenshot_raises"} :
       /\ screenshot_path' = IF r = "tempfile_raises" THEN None
                             ELSE Some("tmp.png")
       /\ tmp_exists' = (r # "tempfile_raises")
       /\ tmp_content' = IF r = "ok" THEN "before" ELSE "empty"
       /\ trace' = IF r = "tempfile_raises" THEN trace
                   ELSE Append(trace, "screenshot")
       /\ IF r = "ok"
          THEN /\ pc' = IF truthy(w_target) THEN "resolve" ELSE "list"
               /\ UNCHANGED << exc, failure >>
          ELSE pc' = "exit" /\ exc' = Some("step") /\ failure' = "step"
  /\ UNCHANGED << playwright, error_occurred, w_item, new_items, clicks,
                  debug, save_attempts, outcome >>
  /\ UNCHANGED << winputs, rvars, bvars, pvars >>

\* screenshot_and_ocr_url lines 233-247: found is reported; not found is
\* reported after a recognition and leaves with sys.exit(1)
url_resolve ==
  /\ wf = "screenshot_and_ocr_url"
  /\ pc = "resolve"
  /\ \E r \in {"ok", "find_raises", "recognize_raises"} :
       LET found == find_item(screen_before, w_target[1])
       IN  /\ r = "recognize_raises" => found = None
           /\ w_item' = IF r = "find_raises" THEN w_item ELSE found
           /\ trace' = trace \o << "resolve" >>
                         \o (IF r # "find_raises" /\ found = None
                             THEN << "recognize" >> ELSE <<>>)
           /\ IF r # "ok"
              THEN /\ pc' = "exit"
                   /\ exc' = Some("step")
                   /\ failure' = "step"
                   /\ outcome' = outcome
              ELSE IF found = None
              THEN /\ pc' = "exit"
                   /\ exc' = Some("exit")
                   /\ failure' = "not_found"
                   /\ outcome' = "not_found"
              ELSE /\ pc' = "unlink"
                   /\ outcome' = "found"
                   /\ UNCHANGED << exc, failure >>
  /\ UNCHANGED << playwright, screenshot_path, tmp_exists, tmp_content,
                  error_occurred, new_items, clicks, debug, save_attempts >>
  /\ UNCHANGED << winputs, rvars, bvars, pvars >>

\* screenshot_and_ocr_url lines 248-255
url_list ==
  /\ wf = "screenshot_and_ocr_url"
  /\ pc = "list"
  /\ trace' = Append(trace, "recognize")
  /\ \E raises \in BOOLEAN :
       IF raises
       THEN /\ pc' = "exit"
            /\ exc' = Some("step")
            /\ failure' = "step"
            /\ outcome' = outcome
       ELSE /\ pc' = "unlink"
            /\ outcome' = "listed"
            /\ UNCHANGED << exc, failure >>
  /\ UNCHANGED << playwright, screenshot_path, tmp_exists, tmp_content,
                  error_occurred, w_item, new_items, clicks, debug,
                  save_attempts >>
  /\ UNCHANGED << winputs, rvars, bvars, pvars >>

\* screenshot_and_ocr_url lines 257-258
url_unlink ==
  /\ wf = "screenshot_and_ocr_url"
  /\ pc = "unlink"
  /\ tmp_exists' = FALSE
  /\ trace' = Append(trace, "unlink")
  /\ pc' = "exit"
  /\ UNCHANGED << playwright, screenshot_path, tmp_content, error_occurred,
                  w_item, new_items, clicks, debug, save_attempts, exc,
                  failure, outcome >>
  /\ UNCHANGED << winputs, rvars, bvars, pvars >>

\* screenshot_and_ocr_url line 221: leaving `async with` stops the driver,
\* whatever leaves the block
url_exit ==
  /\ wf = "screenshot_and_ocr_url"
  /\ pc = "exit"
  /\ playwright' = "stopped"
  /\ trace' = Append(trace, "stop")
  /\ outcome' = propagated(exc, outcome)
  /\ pc' = "done"
  /\ UNCHANGED << screenshot_path, tmp_exists, tmp_content, error_occurred,
                  w_item, new_items, clicks, debug, save_attempts, exc,
                  failure >>
  /\ UNCHANGED << winputs, rvars, bvars, pvars >>

NextWorkflow ==
  \/ connect_browser
  \/ screenshot_ocr_shoot
  \/ screenshot_ocr_resolve
  \/ screenshot_ocr_click
  \/ screenshot_ocr_verify
  \/ screenshot_ocr_not_found
  \/ screenshot_ocr_list
  \/ screenshot_ocr_except
  \/ screenshot_ocr_finally
  \/ ocr_and_click_shoot
  \/ ocr_and_click_resolve
  \/ ocr_and_click_click
  \/ ocr_and_click_failed
  \/ ocr_and_click_except
  \/ ocr_and_click_finally
  \/ url_open
  \/ url_shoot
  \/ url_resolve
  \/ url_list
  \/ url_unlink
  \/ url_exit

SpecWorkflow == InitWorkflow /\ [][NextWorkflow]_vars

\* ------------------------------------------------------------------------
\* The recognition adapter: from a detection polygon to an item
\* ------------------------------------------------------------------------

\* largest polygon coordinate the backend reports, in half pixels
MaxHalf == 13

\* int(p[0]) for a non-negative coordinate given in half pixels: truncation
to_int(h) == h \div 2

Min4(a) == CHOOSE m \in {a[1], a[2], a[3], a[4]} : \A k \in 1..4 : m <= a[k]

Max4(a) == CHOOSE m \in {a[1], a[2], a[3], a[4]} : \A k \in 1..4 : m >= a[k]

\* a faulty adapter: the center is the polygon's first corner
adapt_item_first_corner(poly, txt) ==
  LET int_box == [k \in 1..4 |-> << to_int(poly[k][1]), to_int(poly[k][2]) >>]
      xs == [k \in 1..4 |-> int_box[k][1]]
      ys == [k \in 1..4 |-> int_box[k][2]]
  IN  [text |-> txt, box |-> int_box,
       bbox |-> << Min4(xs), Min4(ys), Max4(xs), Max4(ys) >>,
       center |-> int_box[1]]

\* ocr.py lines 56-71 and ocr_server.py lines 86-101 (the same statements):
\* the item built for one detection
adapt_item(poly, txt) ==
  LET int_box == [k \in 1..4 |-> << to_int(poly[k][1]), to_int(poly[k][2]) >>]
      xs == [k \in 1..4 |-> int_box[k][1]]
      ys == [k \in 1..4 |-> int_box[k][2]]
      cx == (xs[1] + xs[2] + xs[3] + xs[4]) \div 4
      cy == (ys[1] + ys[2] + ys[3] + ys[4]) \div 4
  IN  [text |-> txt, box |-> int_box,
       bbox |-> << Min4(xs), Min4(ys), Max4(xs), Max4(ys) >>,
       center |-> << cx, cy >>]

\* the y coordinates of the polygons looked at, in half pixels: a rectangle,
\* a slanted parallelogram, an irregular quadrilateral
PolyYs == { << 0, 0, 6, 6 >>, << 2, 0, 4, 6 >>, << 0, 1, 13, 2 >> }

InitAdapter ==
  /\ \E xs \in [1..4 -> 0..MaxHalf], ys \in PolyYs :
       box = [k \in 1..4 |-> << xs[k], ys[k] >>]
  /\ adapted = None
  /\ text_items = <<>>
  /\ built = None
  /\ ResolverIdle
  /\ BackendIdle
  /\ WorkflowIdle

\* ocr.py _recognize_local, lines 56-71
recognize_local_item ==
  /\ adapted = None
  /\ adapted' = Some([by |-> "local", item |-> adapt_item(box, << "t" >>)])
  /\ UNCHANGED << box, text_items, built, rvars, bvars, wvars >>

\* ocr_server.py recognize_image, lines 86-101
recognize_image_item ==
  /\ adapted = None
  /\ adapted' = Some([by |-> "server", item |-> adapt_item(box, << "t" >>)])
  /\ UNCHANGED << box, text_items, built, rvars, bvars, wvars >>

NextAdapter == recognize_local_item \/ recognize_image_item

SpecAdapter == InitAdapter /\ [][NextAdapter]_vars

\* ------------------------------------------------------------------------
\* ocr_server.py: _build_text
\* ------------------------------------------------------------------------

\* longest item list handed to _build_text
MaxBuild == 3

\* sum of center y over a list of items
RECURSIVE sum_cy(_)
sum_cy(its) ==
  IF its = <<>> THEN 0 ELSE its[1].center[2] + sum_cy(Tail(its))

\* lines 112-113: sorted(heights)[len(heights) // 2] * 0.6, in tenths
line_thresh(items) ==
  LET heights == [i \in 1..Len(items) |-> items[i].bbox[4] - items[i].bbox[2]]
      sorted  == stable_sort(heights,
                   [i \in 1..Len(heights) |-> << heights[i] >>])
  IN  sorted[Len(heights) \div 2 + 1] * 6

\* line 126: abs(cy - current_line_y) <= line_thresh, where current_line_y is
\* the mean center y of current_line and thresh10 is ten times the threshold
within_line(cy, current_line, thresh10) ==
  LET n == Len(current_line)
      s == sum_cy(current_line)
      d == IF cy * n >= s THEN cy * n - s ELSE s - cy * n
  IN  10 * d <= thresh10 * n

\* lines 117-134: the walk over sorted_by_y; lines and current_line so far
RECURSIVE cluster(_, _, _, _)
cluster(rest, lines, current_line, thresh10) ==
  IF rest = <<>>
  THEN IF current_line # <<>> THEN Append(lines, current_line) ELSE lines
  ELSE LET it == rest[1]
       IN  IF current_line = <<>>
           THEN cluster(Tail(rest), lines, << it >>, thresh10)
           ELSE IF within_line(it.center[2], current_line, thresh10)
           THEN cluster(Tail(rest), lines, Append(current_line, it), thresh10)
           ELSE cluster(Tail(rest), Append(lines, current_line), << it >>,
                        thresh10)

\* lines 145-162: a space goes before it when the gap to the previous item
\* is wide: relative to the mean width for wide blocks, absolute otherwise
should_add_space(prev_bbox, bbox) ==
  LET gap        == bbox[1] - prev_bbox[3]
      prev_width == prev_bbox[3] - prev_bbox[1]
      curr_width == bbox[3] - bbox[1]
  IN  IF prev_width + curr_width > 200
      THEN 10 * gap > prev_width + curr_width
      ELSE gap > 30

\* lines 142-165: the text of one line whose items are sorted by bbox[0]
RECURSIVE line_text(_, _)
line_text(line_items, i) ==
  IF i > Len(line_items) THEN <<>>
  ELSE (IF i > 1 /\ should_add_space(line_items[i - 1].bbox,
                                     line_items[i].bbox)
        THEN << " " >> ELSE <<>>)
       \o line_items[i].text \o line_text(line_items, i + 1)

\* lines 106-167, _build_text: the lines after the sort by bbox[0] and the
\* string returned
build_text(items) ==
  IF items = <<>> THEN [lines |-> <<>>, text |-> <<>>]
  ELSE LET sorted_by_y == stable_sort(items,
                            [i \in 1..Len(items) |-> << items[i].center[2] >>])
           lines == cluster(sorted_by_y, <<>>, <<>>, line_thresh(items))
           by_x  == [k \in 1..Len(lines) |->
                      stable_sort(lines[k],
                        [i \in 1..Len(lines[k]) |-> << lines[k][i].bbox[1] >>])]
       IN  [lines |-> by_x,
            text  |-> join(<< "\n" >>,
                           [k \in 1..Len(by_x) |-> line_text(by_x[k], 1)])]

\* an item as recognize_image builds it from an upright rectangle
TextItem(t, x1, y1, w, h) ==
  [text |-> t, bbox |-> << x1, y1, x1 + w, y1 + h >>,
   center |-> << (4 * x1 + 2 * w) \div 4, (4 * y1 + 2 * h) \div 4 >>]

TextNames == << << "a" >>, << "b" >>, << "c" >>, << "d" >> >>

\* left edge and width, top edge, height of the rectangles looked at
TextSpans == { << 0, 20 >>, << 60, 20 >>, << 0, 130 >> }

TextTops == { 0, 6, 40 }

TextHeights == { 10, 30 }

InitBuildText ==
  /\ \E n \in 0..MaxBuild :
       \E sp \in [1..n -> TextSpans], y1 \in [1..n -> TextTops],
          h \in [1..n -> TextHeights] :
         text_items = [k \in 1..n |->
                         TextItem(TextNames[k], sp[k][1], y1[k], sp[k][2],
                                  h[k])]
  /\ built = None
  /\ box = <<>>
  /\ adapted = None
  /\ ResolverIdle
  /\ BackendIdle
  /\ WorkflowIdle

\* ocr_server.py line 181: text = _build_text(items)
call_build_text ==
  /\ built = None
  /\ built' = Some(build_text(text_items))
  /\ UNCHANGED << box, adapted, text_items, rvars, bvars, wvars >>

NextBuildText == call_build_text

SpecBuildText == InitBuildText /\ [][NextBuildText]_vars

\* ------------------------------------------------------------------------
\* The resolver's contract, as the specification words it
\* ------------------------------------------------------------------------

Range(s) == { s[i] : i \in DOMAIN s }

\* exact: the same string; otherwise tgt occurs in text, letter case ignored
TextFilter(text, tgt, ex) ==
  IF ex
  THEN Len(text) = Len(tgt) /\ \A k \in 1..Len(tgt) : text[k] = tgt[k]
  ELSE \E off \in 0..(Len(text) - Len(tgt)) :
         \A k \in 1..Len(tgt) : lower_char(text[off + k]) = lower_char(tgt[k])

\* the region bands for an image of size W x H
RegionBand(name, center, W, H) ==
  LET x == center[1]
      y == center[2]
  IN  CASE name = "top"    -> 10 * y <= 4 * H
        [] name = "bottom" -> 10 * y >= 6 * H
        [] name = "left"   -> 10 * x <= 4 * W
        [] name = "right"  -> 10 * x >= 6 * W
        [] name = "center" -> /\ 3 * W < 10 * x /\ 10 * x < 7 * W
                             /\ 3 * H < 10 * y /\ 10 * y < 7 * H
        [] OTHER           -> TRUE

\* the region filter: no region or no known size removes nothing
RegionFilter(reg, center, size) ==
  IF reg = None \/ size = None THEN TRUE
  ELSE RegionBand(reg[1], center, size[1][1], size[1][2])

\* the places in rec.items of the items that pass both filters
Passing(rec) ==
  { i \in 1..Len(rec.items) :
      /\ TextFilter(rec.items[i].text, target, exact)
      /\ RegionFilter(region, rec.items[i].center, rec.img_size) }

\* the resolver ran to its end: find_text_item returned (local mode), the
\* /find handler answered ok or not_found
LocalResolved == local.status = "returned"

RemoteResolved == remote.resp \in {"ok", "not_found"}

\* C1: the resolver returns not-found or an input item that passes the text
\* filter and the region filter, and not-found exactly when no input item
\* passes both; no item that fails a filter is returned as a fallback.
C1_For(rec) ==
  /\ rec.ret = None <=> Passing(rec) = {}
  /\ rec.ret # None => \E i \in Passing(rec) : rec.ret[1] = rec.items[i]

C1_OnlyPassingItems ==
  /\ LocalResolved => C1_For(local)
  /\ RemoteResolved => /\ C1_For(remote)
                       /\ remote.resp = "not_found" <=> remote.ret = None

\* some item matches the text but lies outside the region: not-found
C1_Witness ==
  /\ LocalResolved /\ RemoteResolved
  /\ local.ret = None /\ remote.resp = "not_found"
  /\ region = Some("top")
  /\ \E i \in 1..Len(local.items) :
        TextFilter(local.items[i].text, target, exact)

\* C2: the text filter accepts an item with exact=true iff its text is
\* identical to the target, and with exact=false iff the lower-cased target
\* is a substring of the lower-cased text.
C2_For(rec) ==
  \A i \in 1..Len(rec.items) :
     LET item == rec.items[i]
     IN  /\ item \in Range(rec.candidates)
              => TextFilter(item.text, target, exact)
         /\ (TextFilter(item.text, target, exact)
             /\ (~truthy_name(region) \/ rec.img_size = None))
              => item \in Range(rec.candidates)

C2_TextFilter ==
  /\ LocalResolved => C2_For(local)
  /\ RemoteResolved => C2_For(remote)
  \* "login" against "Login"; "Post" against "posts"
  /\ (LocalResolved /\ target = lower(Login) /\ exact)
        => Item(Login, 35, 20) \notin Range(local.candidates)
  /\ (LocalResolved /\ target = lower(Login) /\ ~exact /\ region = None)
        => Item(Login, 35, 20) \in Range(local.candidates)
  /\ (LocalResolved /\ target = <<"P", "o", "s", "t">> /\ region = None)
        => (Item(<<"p", "o", "s", "t", "s">>, 35, 80) \in Range(local.candidates)
              <=> (~exact /\ Item(<<"p", "o", "s", "t", "s">>, 35, 80)
                                \in Range(local.items)))

\* "login" finds nothing exactly although "Login" is on the screen
C2_Witness ==
  /\ LocalResolved /\ RemoteResolved
  /\ target = lower(Login) /\ exact
  /\ Item(Login, 35, 20) \in Range(local.items)
  /\ local.ret = None /\ remote.resp = "not_found"

\* C3: with the image size (W, H) known, a text-matching item survives the
\* region filter iff its center lies in the region's band (top: y <= 0.4H,
\* bottom: y >= 0.6H, left: x <= 0.4W, right: x >= 0.6W, center: 0.3W < x <
\* 0.7W and 0.3H < y < 0.7H); with the size unknown the filter removes nothing.
FiveRegions == {"top", "bottom", "left", "right", "center"}

C3_For(rec) ==
  \A i \in 1..Len(rec.items) :
     LET item == rec.items[i]
     IN  TextFilter(item.text, target, exact) =>
           /\ (region # None /\ region[1] \in FiveRegions /\ rec.img_size # None)
                => (item \in Range(rec.candidates)
                      <=> RegionBand(region[1], item.center,
                                     rec.img_size[1][1], rec.img_size[1][2]))
           /\ rec.img_size = None => item \in Range(rec.candidates)

\* the two items of the specification's example, in an image of size W x H
C3_Example(rec) ==
  \A i \in 1..Len(rec.items) :
     LET item == rec.items[i]
         W    == rec.img_size[1][1]
         H    == rec.img_size[1][2]
         in   == item \in Range(rec.candidates)
     IN  (/\ TextFilter(item.text, target, exact)
          /\ region # None /\ region[1] \in FiveRegions /\ rec.img_size # None)
         => /\ (10 * item.center[1] = W /\ 10 * item.center[2] = H)
                 => (in <=> region[1] \in {"top", "left"})
            /\ (2 * item.center[1] = W /\ 2 * item.center[2] = H)
                 => (in <=> region[1] = "center")

NearHits(rec) ==
  IF near = None \/ near = Some(<<>>) THEN {}
  ELSE { i \in 1..Len(rec.items) : TextFilter(rec.items[i].text, near[1], FALSE) }

First(S) == CHOOSE i \in S : \A j \in S : i <= j

Dist2(p, q) == (p[1] - q[1]) * (p[1] - q[1]) + (p[2] - q[2]) * (p[2] - q[2])

\* C4: when near is given (a non-empty string) and some item's text contains
\* it, the anchor is the center of the first such item in the item order,
\* and with more than one surviving candidate the resolver returns a candidate
\* whose squared distance to the anchor is minimal among the candidates.
C4_For(rec) ==
  NearHits(rec) # {} =>
    LET anchor == rec.items[First(NearHits(rec))].center
    IN  /\ rec.near_center = Some(anchor)
        /\ Len(rec.candidates) > 1 =>
             /\ rec.ret # None
             /\ rec.ret[1] \in Range(rec.candidates)
             /\ \A c \in Range(rec.candidates) :
                   Dist2(rec.ret[1].center, anchor) <= Dist2(c.center, anchor)

C4_NearestToAnchor ==
  /\ LocalResolved => C4_For(local)
  /\ RemoteResolved => C4_For(remote)

\* the anchor is no candidate, and the closest candidate is not the first one
C4_Witness ==
  /\ LocalResolved
  /\ local.near_center # None
  /\ Len(local.candidates) > 1
  /\ local.ret # Some(local.candidates[1])
  /\ \A c \in Range(local.candidates) : c.center # local.near_center[1]

\* C5: when no anchor exists (near absent or empty, or near contained in no
\* item's text), the resolver returns the first item of the input list that
\* passes both filters; an unmatched near raises nothing and is no reason for
\* not-found.
C5_For(rec) ==
  NearHits(rec) = {} =>
    /\ rec.near_center = None
    /\ rec.ret = IF Passing(rec) = {} THEN None
                 ELSE Some(rec.items[First(Passing(rec))])

C5_FirstInOrder ==
  /\ LocalResolved => C5_For(local)
  /\ RemoteResolved => C5_For(remote)
  /\ local.status = "raised" => ~path_exists
  /\ remote.status = "raised" => truthy_name(region) /\ image_size = None
  /\ remote.resp = "http_400" => ~path_exists

\* near matches nothing and two candidates survive: the first is returned
C5_Witness ==
  /\ LocalResolved /\ RemoteResolved
  /\ near = Some(<<"c">>)
  /\ Len(local.candidates) > 1
  /\ local.candidates[1] # local.candidates[2]
  /\ local.ret = Some(local.candidates[1])
  /\ remote.ret = Some(remote.candidates[1])

SortedYX(s) ==
  \A i \in 1..Len(s), j \in 1..Len(s) :
     i < j => \/ s[i].center[2] < s[j].center[2]
              \/ /\ s[i].center[2] = s[j].center[2]
                 /\ s[i].center[1] <= s[j].center[1]

C7_Step ==
  /\ probes' <= 1
  /\ probes' # probes => use_api = None /\ Len(calls') = Len(calls) + 1
  /\ use_api # None => use_api' = use_api
  /\ constructions' <= 1
  /\ ocr' # ocr =>
       /\ ocr = None /\ use_api' = Some(FALSE)
       /\ constructions' = constructions + 1
       /\ Len(calls') = Len(calls) + 1
  /\ (/\ Len(calls') = Len(calls) + 1
      /\ calls'[Len(calls')].mode = "local"
      /\ ~calls'[Len(calls')].raised) => ocr' # None
  /\ (/\ Len(calls') = Len(calls) + 1
      /\ calls'[Len(calls')].mode = "api") => ocr' = None \/ ocr' = ocr

C7_ProbeOnceLoadOnce == [][C7_Step]_vars

\* the choice was probed as remote, the server went away, and a later call
\* still went to the API without a second probe and without a local model
C7_Witness ==
  /\ Len(calls) = 3
  /\ calls[1].probed /\ calls[1].mode = "api"
  /\ server = "down"
  /\ calls[3].mode = "api" /\ calls[3].raised
  /\ probes = 1 /\ ocr = None

\* ------------------------------------------------------------------------
\* The workflows' contract, as the specification words it
\* ------------------------------------------------------------------------

RECURSIVE Blob(_)
\* the texts of items joined by single spaces, built from the last item back
Blob(items) ==
  IF items = <<>> THEN <<>>
  ELSE IF Len(items) = 1 THEN items[1].text
  ELSE Blob(SubSeq(items, 1, Len(items) - 1)) \o << " " >>
         \o items[Len(items)].text

\* an expectation string was given: present and not empty
Given(opt) == opt # None /\ opt[1] # <<>>

Reported == { "not_found", "expect_failed", "still_exists" }

Succeeded == { "clicked", "found", "listed" }

\* C8: in screenshot_ocr with a positive wait, once the click was made and
\* the page recognized again, the invocation ends with expect_failed exactly
\* when an expect string was given and does not occur, letter case ignored,
\* in the space-joined text of the new items; otherwise it ends with
\* still_exists exactly when an expect-gone string was given and does occur;
\* otherwise the click is reported as a success.
C8_VerificationOutcome ==
  (wf = "screenshot_ocr" /\ pc = "done" /\ new_items # None) =>
    LET blob == Blob(new_items[1])
        missing == /\ Given(w_expect_text)
                   /\ ~TextFilter(blob, w_expect_text[1], FALSE)
        present == /\ Given(w_expect_gone)
                   /\ TextFilter(blob, w_expect_gone[1], FALSE)
    IN  /\ outcome = "expect_failed" <=> missing
        /\ ~missing => (outcome = "still_exists" <=> present)
        /\ (~missing /\ ~present) => outcome = "clicked"

\* C9, as stated: in screenshot_ocr a reported not_found, expect_failed or
\* still_exists, and an error that propagates after the screenshot was taken,
\* each come with a debug artifact already written; a success comes with none.
C9_ArtifactOnEveryFailure ==
  wf = "screenshot_ocr" =>
    /\ outcome \in Reported => debug # <<>>
    /\ (outcome \in {"error", "save_error"} /\ tmp_content # "empty") =>
         debug # <<>>
    /\ outcome \in Succeeded => debug = <<>>

\* C9, amended: in screenshot_ocr a reported not_found, expect_failed or
\* still_exists comes with a debug artifact already written; an error that
\* propagates after the screenshot was taken comes after at least one attempt
\* to write the artifact, and the artifact is missing only when the error that
\* propagates is the one raised by the copy; a success comes with no artifact
\* and no attempt to write one.
C9_ArtifactUnlessCopyFails ==
  wf = "screenshot_ocr" =>
    /\ outcome \in Reported => debug # <<>>
    /\ (outcome \in {"error", "save_error"} /\ tmp_content # "empty") =>
         /\ save_attempts >= 1
         /\ debug = <<>> => outcome = "save_error"
    /\ outcome \in Succeeded => debug = <<>> /\ save_attempts = 0

\* the second recognition raised after the click, the handler wrote the
\* artifact and the error propagated
C9_Witness ==
  /\ wf = "screenshot_ocr"
  /\ pc = "done"
  /\ outcome = "error"
  /\ Len(clicks) = 1
  /\ tmp_content = "after"
  /\ debug = << "error" >>

\* C10: when an invocation of screenshot_ocr, ocr_and_click or
\* screenshot_and_ocr_url that created its temp file has ended, the temp file
\* no longer exists, and unless the invocation succeeded a debug artifact was
\* written.
C10_TempFileNotLeaked ==
  (wf # "none" /\ pc = "done" /\ screenshot_path # None) =>
    /\ ~tmp_exists
    /\ outcome \notin Succeeded => debug # <<>>

\* C11: when an invocation of a browser workflow has ended, on whatever path,
\* the automation driver it started has been stopped.
C11_ConnectionReleased ==
  (wf # "none" /\ pc = "done") => playwright = "stopped"

\* C12: when an invocation has ended and a copy to the debug directory raised
\* on the way, the caller is told the failure that was being handled
\* (not_found, expect_failed, still_exists, click_failed, or the error of the
\* step that raised), never the copy's own error.
C12_OriginalFailureReported ==
  (wf # "none" /\ pc = "done" /\ save_attempts > Len(debug)) =>
    outcome = (IF failure = "step" THEN "error" ELSE failure)

\* C13: a response of the remote find that is neither ok nor not_found makes
\* the client raise; the client returns "nothing found" only for a not_found
\* response.
C13_BackendErrorRaised ==
  /\ remote.resp \in {"http_400", "http_500"} => remote.status = "raised"
  /\ (remote.status = "returned" /\ remote.ret = None) =>
       remote.resp = "not_found"

\* the steps of the workflow the order is about
IsStep(name) ==
  name \in {"screenshot", "resolve", "click", "wait", "recognize"}

ClickOrder ==
  << "screenshot", "resolve", "click", "wait", "screenshot", "recognize" >>

IsPrefix(a, b) == Len(a) <= Len(b) /\ SubSeq(b, 1, Len(a)) = a

Centroid(pts) ==
  << (pts[1][1] + pts[2][1] + pts[3][1] + pts[4][1]) \div 4,
     (pts[1][2] + pts[2][2] + pts[3][2] + pts[4][2]) \div 4 >>

\* the four corners of a bbox (x1, y1, x2, y2), clockwise from top-left
Corners(b) == << << b[1], b[2] >>, << b[3], b[2] >>,
                 << b[3], b[4] >>, << b[1], b[4] >> >>

Abs(n) == IF n < 0 THEN -n ELSE n

Within1(p, q) == Abs(p[1] - q[1]) <= 1 /\ Abs(p[2] - q[2]) <= 1

\* opposite corners have the same sum: the quadrilateral is a parallelogram
IsParallelogram(pts) ==
  /\ pts[1][1] + pts[3][1] = pts[2][1] + pts[4][1]
  /\ pts[1][2] + pts[3][2] = pts[2][2] + pts[4][2]

\* C14, as stated: for every item the adapter builds, the centroid of the
\* bbox's corners is within 1 of the item's center in each coordinate.
C14_RoundTrip ==
  adapted # None =>
    Within1(Centroid(Corners(adapted[1].item.bbox)), adapted[1].item.center)

\* C14, amended: for every item the adapter builds the center lies inside the
\* bbox, and when the integer polygon is a parallelogram (a rectangle,
\* upright or rotated) the centroid of the bbox's corners is within 1 of the
\* center in each coordinate.
C14_RoundTripParallelogram ==
  adapted # None =>
    LET it == adapted[1].item
    IN  /\ it.bbox[1] <= it.center[1] /\ it.center[1] <= it.bbox[3]
        /\ it.bbox[2] <= it.center[2] /\ it.center[2] <= it.bbox[4]
        /\ IsParallelogram(it.box) =>
             Within1(Centroid(Corners(it.bbox)), it.center)

\* a slanted parallelogram six pixels wide went through the adapter
C14_Witness ==
  /\ adapted # None
  /\ IsParallelogram(adapted[1].item.box)
  /\ adapted[1].item.box[1][2] # adapted[1].item.box[2][2]
  /\ adapted[1].item.bbox[3] - adapted[1].item.bbox[1] = 6
  /\ adapted[1].item.box[1][1] # adapted[1].item.bbox[1]

\* twice the median of a list of numbers: the middle one of the sorted list
\* counted twice, or the sum of the two middle ones when the length is even
Median2(ns) ==
  LET n == Len(ns)
      s == stable_sort(ns, [i \in 1..n |-> << ns[i] >>])
  IN  IF n % 2 = 1 THEN 2 * s[(n + 1) \div 2]
      ELSE s[n \div 2] + s[n \div 2 + 1]

\* the items of a line in ascending center.y
ByY(line) ==
  stable_sort(line, [i \in 1..Len(line) |-> << line[i].center[2] >>])

RECURSIVE SumY(_, _)
\* the sum of center.y of the first k items
SumY(its, k) == IF k = 0 THEN 0 ELSE its[k].center[2] + SumY(its, k - 1)

\* |cy - mean center.y of the first k items| <= median height * 0.6, where
\* med2 is twice the median height
NearMean(cy, its, k, med2) ==
  LET s == SumY(its, k)
      d == IF cy * k >= s THEN cy * k - s ELSE s - cy * k
  IN  20 * d <= 6 * med2 * k

\* lines are the clustering of items with threshold med2 / 2 * 0.6: each
\* item belongs to exactly one line, the lines go top to bottom, an item is
\* in the line of its predecessors exactly when it is near their running
\* mean, and each line is ordered by its left edge
ClusteredBy(lines, items, med2) ==
  /\ \A it \in Range(items) :
       Cardinality({ k \in 1..Len(lines) : it \in Range(lines[k]) }) = 1
  /\ \A k \in 1..Len(lines) :
       /\ lines[k] # <<>>
       /\ Range(lines[k]) \subseteq Range(items)
       /\ Cardinality(Range(lines[k])) = Len(lines[k])
       /\ \A i \in 1..(Len(lines[k]) - 1) :
            lines[k][i].bbox[1] <= lines[k][i + 1].bbox[1]
       /\ LET ys == ByY(lines[k])
          IN  \A j \in 2..Len(ys) :
                NearMean(ys[j].center[2], ys, j - 1, med2)
  /\ \A k \in 1..(Len(lines) - 1) :
       LET ys  == ByY(lines[k])
           nxt == ByY(lines[k + 1])
       IN  /\ ys[Len(ys)].center[2] <= nxt[1].center[2]
           /\ ~NearMean(nxt[1].center[2], ys, Len(ys), med2)

\* C16: for item lists of any length the lines _build_text forms are the
\* clustering with threshold median(heights) * 0.6, top to bottom, each line
\* ordered by bbox.x1, every item's text in exactly one line.
C16_MedianClustering ==
  built # None =>
    /\ ClusteredBy(built[1].lines, text_items,
         Median2([i \in 1..Len(text_items) |->
                    text_items[i].bbox[4] - text_items[i].bbox[2]]))
    /\ \A i \in 1..Len(text_items) :
         Cardinality({ p \in 1..Len(built[1].text) :
                         << built[1].text[p] >> = text_items[i].text }) = 1

====
